---- MODULE Spec2Model ----
(***************************************************************************)
(* NativeVoicePipeline (src-tauri/src/native_voice.rs) and the Tauri       *)
(* commands that drive it (src-tauri/src/lib.rs).                          *)
(*                                                                         *)
(* The pipeline's fields are shared between control threads (the public    *)
(* methods) and the audio thread (the cpal input callback built in         *)
(* run_audio_loop).  Every access to a shared field (an atomic load or     *)
(* store, or one short critical section of a Mutex) is one step; work on   *)
(* values local to a thread is folded into the step of the shared access   *)
(* next to it.                                                             *)
(*                                                                         *)
(* Abstractions of data:                                                   *)
(*  - recording_buffer is the number of 512-sample blocks it holds;        *)
(*  - energies and vad_sensitivity are in thousandths (0.02 is 20);        *)
(*  - start_time.elapsed() is the number of 50 ms sleeps of the wait loop; *)
(*  - "3 s since last_wake_emission" is a flag set by the passing of time. *)
(***************************************************************************)
EXTENDS Integers, Sequences, FiniteSets, TLC

\* ---------------------------------------------------------------- constants
SKIP_FRAMES_AFTER_WAKE_WORD == 15
MIN_RECORDING_FRAMES == 30
MAX_RECORDING_SECONDS == 30
VOICE_FRAMES_REQUIRED == 10
\* usize::MAX, the value fetch_sub(1) leaves in an AtomicUsize that held 0
\* (the largest integer TLC represents stands for 2^64 - 1)
UsizeMax == 2147483647

\* ------------------------------------------------------------------- bounds
\* polls of the wait loop after which start_time.elapsed() > 30 s
TimeoutPolls == 1
\* blocks the recording buffer may hold (the Vec grows without limit)
MaxBuffer == 3
\* loud blocks in a row the microphone delivers before it goes quiet again
MaxVoiceFrames == 11

VoiceStates == {"Idle", "ListeningForWakeWord", "Transcribing", "Speaking"}
\* control threads and audio-loop threads
Threads == {"t1", "t2"}
Loops == {"a1", "a2"}
\* block energies: silence, speech below the wake threshold, loud speech
Energies == {0, 30, 60}
\* a room in which nobody raises the voice
QuietEnergies == {0, 30}
\* the tunables handed to new()
SensitivityArgs == {20}
TimeoutArgs == {100}
\* what transcribe_with_whisper returns
WhisperOutcomes == {"Ok", "WhisperError", "NoSpeech"}

VARIABLES
    state,                \* Arc<Mutex<VoiceState>>
    wake_word_active,     \* Arc<AtomicBool>
    recording_buffer,     \* Arc<Mutex<Vec<f32>>>, in blocks
    recording_complete,   \* Arc<AtomicBool>
    skip_frames_counter,  \* Arc<AtomicUsize>
    voice_detected,       \* Arc<AtomicBool>
    vad_sensitivity,      \* Arc<Mutex<f32>>, in thousandths
    vad_timeout_ms,       \* Arc<Mutex<u32>>
    model_present,        \* whisper_model.exists()
    device_present,       \* host.default_input_device().is_some()
    data,                 \* the block of samples under calculate_rms_energy
    energy,               \* the energy computed for data
    pipeline_lock,        \* the StdMutex lib.rs wraps the pipeline in
    vad_sensitivity_lock, \* holder of a long-lived guard of vad_sensitivity
    pc,                   \* control threads: the statement each is at
    arg,                  \* control threads: set_state's new_state, a command's method
    polls,                \* control threads: 50 ms sleeps of the wait loop
    recording_samples,    \* control threads: the copy of the buffer
    result,               \* control threads: what the call returns
    did,                  \* control threads: effects of the current call
    loop_pc,              \* audio loops: the host thread's position
    cb_pc,                \* audio loops: the callback's position
    current_state,        \* callback local
    sensitivity,          \* callback local
    timeout_ms,           \* callback local
    voice_frame_count,    \* audio loop local (AtomicUsize)
    wake_elapsed,         \* audio loop local: 3 s passed since last_wake_emission
    silence_frame_count,  \* audio loop local (AtomicUsize)
    has_detected_speech,  \* audio loop local (AtomicBool)
    recording_frame_count,\* audio loop local (AtomicUsize)
    wake_emits,           \* "wake_word_detected" events emitted, modulo 2
    loud_run              \* audio loops: blocks in a row the wake-word arm found
                          \* above the wake threshold (history, no field)

shared == <<state, wake_word_active, recording_buffer, recording_complete,
            skip_frames_counter, voice_detected, vad_sensitivity, vad_timeout_ms>>
env == <<model_present, device_present, data, energy>>
ctl == <<pc, arg, polls, recording_samples, result, did, pipeline_lock,
         vad_sensitivity_lock>>
cbl == <<cb_pc, current_state, sensitivity, timeout_ms>>
aud == <<loop_pc, voice_frame_count, wake_elapsed, silence_frame_count,
         has_detected_speech, recording_frame_count, wake_emits, loud_run>>
vars == <<shared, env, ctl, cbl, aud>>

\* the value of energy while none has been computed for data
NoEnergy == 0 - 1

\* ------------------------------------------------------------------- new()
\* the pipeline as new() returns it, called with a sensitivity from S and a
\* timeout from T: both are stored as given, new() checks neither
New(S, T) ==
    /\ state = "Idle"
    /\ wake_word_active = FALSE
    /\ recording_buffer = 0
    /\ recording_complete = FALSE
    /\ skip_frames_counter = 0
    /\ voice_detected = FALSE
    /\ vad_sensitivity \in S
    /\ vad_timeout_ms \in T
    /\ model_present \in BOOLEAN
    /\ device_present \in BOOLEAN
    /\ data = <<>>
    /\ energy = NoEnergy
    /\ pipeline_lock = "free"
    /\ vad_sensitivity_lock = "free"
    /\ pc = [t \in Threads |-> "idle"]
    /\ arg = [t \in Threads |-> "-"]
    /\ polls = [t \in Threads |-> 0]
    /\ recording_samples = [t \in Threads |-> 0]
    /\ result = [t \in Threads |-> "None"]
    /\ did = [t \in Threads |-> {}]
    /\ loop_pc = [a \in Loops |-> "none"]
    /\ cb_pc = [a \in Loops |-> "idle"]
    /\ current_state = [a \in Loops |-> "Idle"]
    /\ sensitivity = [a \in Loops |-> 0]
    /\ timeout_ms = [a \in Loops |-> 0]
    /\ voice_frame_count = [a \in Loops |-> 0]
    /\ wake_elapsed = [a \in Loops |-> FALSE]
    /\ silence_frame_count = [a \in Loops |-> 0]
    /\ has_detected_speech = [a \in Loops |-> FALSE]
    /\ recording_frame_count = [a \in Loops |-> 0]
    /\ wake_emits = 0
    /\ loud_run = [a \in Loops |-> 0]

\* the application's pipeline, built with its default tunables
Init == New(SensitivityArgs, TimeoutArgs)

\* ------------------------------------------------------------ pure helpers
\* a conversion that drops the fraction
SilenceFramesTruncated(ms) == ms \div 32

\* (timeout_ms as f32 / 32.0).round() as usize: halves round away from zero
SilenceFrames(ms) == (2 * ms + 32) \div 64

\* energy > sensitivity * 2.5
AboveWake(e, s) == 2 * e > 5 * s

\* AtomicUsize::fetch_sub(1): wraps at 0; a wrapped value stays above every
\* count the code compares it with for 2^64 further blocks, so it is held
FetchSub1(c) ==
    IF c = 0 THEN UsizeMax
    ELSE IF c > SKIP_FRAMES_AFTER_WAKE_WORD THEN c
    ELSE c - 1

\* AtomicUsize::fetch_add(1) on recording_frame_count, which the code only
\* compares with MIN_RECORDING_FRAMES: counts above it are held there
FetchAdd1Frame(c) == IF c >= MIN_RECORDING_FRAMES THEN c ELSE c + 1

\* a call on thread t returns r: its locals and the guards it holds drop (the
\* command's guard of the pipeline, start_transcription's `vad_sens`)
Return(t, r) ==
    /\ pc' = [pc EXCEPT ![t] = "idle"]
    /\ result' = [result EXCEPT ![t] = r]
    /\ pipeline_lock' = IF pipeline_lock = t THEN "free" ELSE pipeline_lock
    /\ vad_sensitivity_lock' =
          IF vad_sensitivity_lock = t THEN "free" ELSE vad_sensitivity_lock
    /\ polls' = [polls EXCEPT ![t] = 0]
    /\ recording_samples' = [recording_samples EXCEPT ![t] = 0]

\* thread t goes on at statement l
Goto(t, l) ==
    /\ pc' = [pc EXCEPT ![t] = l]
    /\ UNCHANGED <<result, pipeline_lock, vad_sensitivity_lock, polls,
                   recording_samples>>

\* ------------------------------------------------- run_audio_loop: the host
\* std::thread::spawn(run_audio_loop): device lookup, the loop's own counters,
\* build_input_stream and play
LoopSetup(a) ==
    /\ loop_pc[a] = "spawned"
    /\ IF device_present
       THEN /\ loop_pc' = [loop_pc EXCEPT ![a] = "running"]
            /\ voice_frame_count' = [voice_frame_count EXCEPT ![a] = 0]
            /\ wake_elapsed' = [wake_elapsed EXCEPT ![a] = FALSE]
            /\ silence_frame_count' = [silence_frame_count EXCEPT ![a] = 0]
            /\ has_detected_speech' = [has_detected_speech EXCEPT ![a] = FALSE]
            /\ recording_frame_count' = [recording_frame_count EXCEPT ![a] = 0]
            /\ loud_run' = [loud_run EXCEPT ![a] = 0]
       ELSE /\ loop_pc' = [loop_pc EXCEPT ![a] = "none"]
            /\ UNCHANGED <<voice_frame_count, wake_elapsed, silence_frame_count,
                           has_detected_speech, recording_frame_count, loud_run>>
    /\ UNCHANGED <<shared, env, ctl, cbl, wake_emits>>

\* the keep-alive loop finds wake_word_active false: stream.pause(), drop(stream)
LoopKeepAlive(a) ==
    /\ loop_pc[a] = "running"
    /\ cb_pc[a] = "idle"
    /\ ~wake_word_active
    /\ loop_pc' = [loop_pc EXCEPT ![a] = "none"]
    /\ UNCHANGED <<shared, env, ctl, cbl, voice_frame_count, wake_elapsed,
                   silence_frame_count, has_detected_speech,
                   recording_frame_count, wake_emits, loud_run>>

\* three seconds pass since last_wake_emission
WakeElapse(a) ==
    /\ loop_pc[a] = "running"
    /\ ~wake_elapsed[a]
    /\ wake_elapsed' = [wake_elapsed EXCEPT ![a] = TRUE]
    /\ UNCHANGED <<shared, env, ctl, cbl, loop_pc, voice_frame_count,
                   silence_frame_count, has_detected_speech,
                   recording_frame_count, wake_emits, loud_run>>

\* ---------------------------------------------------- calculate_rms_energy
\* the longest block and the largest sample value computed with
MaxBlock == 3
MaxAmplitude == 2

Amplitudes == (0 - MaxAmplitude)..MaxAmplitude

\* the blocks of up to MaxBlock samples
Blocks == UNION {[1..n -> Amplitudes] : n \in 0..MaxBlock}

RECURSIVE SumSquares(_)
\* samples.iter().map(|&s| s * s).sum()
SumSquares(samples) ==
    IF samples = <<>> THEN 0
    ELSE Head(samples) * Head(samples) + SumSquares(Tail(samples))

\* a root that hands its argument back
SqrtIdentity(x) == x

\* .sqrt(), rounded down to a whole sample unit
Sqrt(x) == CHOOSE r \in 0..x : r * r <= x /\ (r + 1) * (r + 1) > x

\* fn calculate_rms_energy(samples: &[f32]) -> f32
calculate_rms_energy(samples) ==
    IF samples = <<>> THEN 0
    ELSE Sqrt(SumSquares(samples) \div Len(samples))

\* a block of samples is at hand, its energy not yet computed
TakeBlock(d) ==
    /\ data' = d
    /\ energy' = NoEnergy
    /\ UNCHANGED <<model_present, device_present, shared, ctl, cbl, aud>>

\* let energy = calculate_rms_energy(data)
ComputeEnergy ==
    /\ energy = NoEnergy
    /\ energy' = calculate_rms_energy(data)
    /\ UNCHANGED <<data, model_present, device_present, shared, ctl, cbl, aud>>

\* --------------------------------------------- run_audio_loop: the callback
CbGoto(a, l) ==
    /\ cb_pc' = [cb_pc EXCEPT ![a] = l]
    /\ UNCHANGED <<current_state, sensitivity, timeout_ms>>

CbReturn(a) ==
    /\ cb_pc' = [cb_pc EXCEPT ![a] = "idle"]
    /\ current_state' = [current_state EXCEPT ![a] = "Idle"]
    /\ sensitivity' = [sensitivity EXCEPT ![a] = 0]
    /\ timeout_ms' = [timeout_ms EXCEPT ![a] = 0]

\* a block arrives; if !wake_word_clone.load() the callback returns at once
CbRunning(a) ==
    /\ loop_pc[a] = "running"
    /\ cb_pc[a] = "idle"
    /\ wake_word_active
    /\ CbGoto(a, "state")
    /\ UNCHANGED <<shared, env, ctl, aud>>

\* let current_state = state_clone.lock().map(|s| *s)
CbState(a) ==
    /\ cb_pc[a] = "state"
    /\ cb_pc' = [cb_pc EXCEPT ![a] = "sensitivity"]
    /\ current_state' = [current_state EXCEPT ![a] = state]
    /\ UNCHANGED <<sensitivity, timeout_ms, shared, env, ctl, aud>>

\* a callback that works with the sensitivity of the pipeline's construction
CbSensitivityFixed(a) ==
    /\ cb_pc[a] = "sensitivity"
    /\ vad_sensitivity_lock = "free"
    /\ cb_pc' = [cb_pc EXCEPT ![a] = "timeout"]
    /\ sensitivity' = [sensitivity EXCEPT ![a] = 20]
    /\ UNCHANGED <<current_state, timeout_ms, shared, env, ctl, aud>>

\* let sensitivity = vad_sensitivity_clone.lock().map(|s| *s)
CbSensitivity(a) ==
    /\ cb_pc[a] = "sensitivity"
    /\ vad_sensitivity_lock = "free"
    /\ cb_pc' = [cb_pc EXCEPT ![a] = "timeout"]
    /\ sensitivity' = [sensitivity EXCEPT ![a] = vad_sensitivity]
    /\ UNCHANGED <<current_state, timeout_ms, shared, env, ctl, aud>>

\* a match whose Idle arm runs the wake-word detection
BranchIdleWakes(s) ==
    CASE s = "Speaking" -> "return"
      [] s = "Transcribing" -> "skip_load"
      [] s = "ListeningForWakeWord" -> "wake"
      [] s = "Idle" -> "wake"

\* a match whose Speaking arm runs the wake-word detection
BranchSpeakingWakes(s) ==
    CASE s = "Speaking" -> "wake"
      [] s = "Transcribing" -> "skip_load"
      [] s = "ListeningForWakeWord" -> "wake"
      [] s = "Idle" -> "return"

\* the arm of `match current_state` the callback goes on with
Branch(s) ==
    CASE s = "Speaking" -> "return"
      [] s = "Transcribing" -> "skip_load"
      [] s = "ListeningForWakeWord" -> "wake"
      [] s = "Idle" -> "return"

\* let timeout_ms = vad_timeout_ms_clone.lock().map(|t| *t); match current_state
CbTimeout(a) ==
    /\ cb_pc[a] = "timeout"
    /\ IF Branch(current_state[a]) = "return"
       THEN CbReturn(a)
       ELSE /\ cb_pc' = [cb_pc EXCEPT ![a] = Branch(current_state[a])]
            /\ timeout_ms' = [timeout_ms EXCEPT ![a] = vad_timeout_ms]
            /\ UNCHANGED <<current_state, sensitivity>>
    /\ UNCHANGED <<shared, env, ctl, aud>>

\* let skip_count = skip_frames_clone.load(); if skip_count > 0
CbSkipLoad(a) ==
    /\ cb_pc[a] = "skip_load"
    /\ CbGoto(a, IF skip_frames_counter > 0 THEN "skip_sub" ELSE "append")
    /\ UNCHANGED <<shared, env, ctl, aud>>

\* skip_frames_clone.fetch_sub(1); return
CbSkipSub(a) ==
    /\ cb_pc[a] = "skip_sub"
    /\ skip_frames_counter' = FetchSub1(skip_frames_counter)
    /\ CbReturn(a)
    /\ UNCHANGED <<state, wake_word_active, recording_buffer, recording_complete,
                   voice_detected, vad_sensitivity, vad_timeout_ms, env, ctl, aud>>

\* energy > sensitivity
IsSpeech(e, s) == e > s

\* a silence count without the minimum recording duration
CountsSilenceAlways(speech, frame_count) == speech

\* has_detected_speech && frame_count >= MIN_RECORDING_FRAMES
CountsSilence(speech, frame_count) ==
    speech /\ frame_count >= MIN_RECORDING_FRAMES

\* recording_frame_count.fetch_add(1) + 1; buffer.extend_from_slice(data);
\* then the end-of-speech detection on the loop's own counters; the code
\* sets no limit to the buffer, the model follows it up to max blocks
CbAppendUpTo(a, e, max) ==
    LET frame_count == FetchAdd1Frame(recording_frame_count[a])
        silence_count == silence_frame_count[a] + 1
    IN
    /\ cb_pc[a] = "append"
    /\ recording_buffer < max
    /\ recording_buffer' = recording_buffer + 1
    /\ recording_frame_count' = [recording_frame_count EXCEPT ![a] = frame_count]
    /\ IF IsSpeech(e, sensitivity[a])
       THEN /\ has_detected_speech' = [has_detected_speech EXCEPT ![a] = TRUE]
            /\ silence_frame_count' = [silence_frame_count EXCEPT ![a] = 0]
            /\ CbReturn(a)
       ELSE IF CountsSilence(has_detected_speech[a], frame_count)
       THEN /\ silence_frame_count' = [silence_frame_count EXCEPT ![a] = silence_count]
            /\ UNCHANGED has_detected_speech
            /\ IF silence_count >= SilenceFrames(timeout_ms[a])
               THEN CbGoto(a, "complete")
               ELSE CbReturn(a)
       ELSE /\ UNCHANGED <<has_detected_speech, silence_frame_count>>
            /\ CbReturn(a)
    /\ UNCHANGED <<state, wake_word_active, recording_complete, skip_frames_counter,
                   voice_detected, vad_sensitivity, vad_timeout_ms, env, ctl,
                   loop_pc, voice_frame_count, wake_elapsed, wake_emits,
                   loud_run>>

\* the append, followed up to MaxBuffer blocks
CbAppend(a, e) == CbAppendUpTo(a, e, MaxBuffer)

\* a callback that itself ends the session when the recording is complete
CbCompleteEndsSession(a) ==
    /\ cb_pc[a] = "complete"
    /\ recording_complete' = TRUE
    /\ state' = "ListeningForWakeWord"
    /\ has_detected_speech' = [has_detected_speech EXCEPT ![a] = FALSE]
    /\ silence_frame_count' = [silence_frame_count EXCEPT ![a] = 0]
    /\ recording_frame_count' = [recording_frame_count EXCEPT ![a] = 0]
    /\ CbReturn(a)
    /\ UNCHANGED <<wake_word_active, recording_buffer, skip_frames_counter,
                   voice_detected, vad_sensitivity, vad_timeout_ms, env, ctl,
                   loop_pc, voice_frame_count, wake_elapsed, wake_emits,
                   loud_run>>

\* recording_complete_clone.store(true); reset of the loop's recording counters
CbComplete(a) ==
    /\ cb_pc[a] = "complete"
    /\ recording_complete' = TRUE
    /\ has_detected_speech' = [has_detected_speech EXCEPT ![a] = FALSE]
    /\ silence_frame_count' = [silence_frame_count EXCEPT ![a] = 0]
    /\ recording_frame_count' = [recording_frame_count EXCEPT ![a] = 0]
    /\ CbReturn(a)
    /\ UNCHANGED <<state, wake_word_active, recording_buffer, skip_frames_counter,
                   voice_detected, vad_sensitivity, vad_timeout_ms, env, ctl,
                   loop_pc, voice_frame_count, wake_elapsed, wake_emits,
                   loud_run>>

\* the length of the run of blocks above the wake threshold, r so far, after
\* a block of energy e; runs longer than VOICE_FRAMES_REQUIRED count as that
LoudRun(r, e, s) ==
    IF ~AboveWake(e, s) THEN 0
    ELSE IF r >= VOICE_FRAMES_REQUIRED THEN r
    ELSE r + 1

\* a counter that silence resets
ResetToZero(x) == 0

\* x.saturating_sub(1)
SaturatingSub1(x) == IF x > 0 THEN x - 1 ELSE x

\* a detector that takes any loud block for enough voice activity
EnoughVoiceAtOnce(count) == count >= 1

\* if count >= VOICE_FRAMES_REQUIRED
EnoughVoice(count) == count >= VOICE_FRAMES_REQUIRED

\* a wake-word arm that notifies whenever enough loud blocks were counted
CbWakeNoDebounce(a, e) ==
    LET count == voice_frame_count[a] + 1 IN
    /\ cb_pc[a] = "wake"
    /\ IF AboveWake(e, sensitivity[a])
       THEN /\ voice_frame_count[a] < MaxVoiceFrames
            /\ IF EnoughVoice(count)
               THEN /\ wake_emits' = 1 - wake_emits
                    /\ voice_detected' = TRUE
                    /\ wake_elapsed' = [wake_elapsed EXCEPT ![a] = FALSE]
                    /\ voice_frame_count' = [voice_frame_count EXCEPT ![a] = 0]
               ELSE /\ voice_frame_count' = [voice_frame_count EXCEPT ![a] = count]
                    /\ UNCHANGED <<wake_emits, voice_detected, wake_elapsed>>
       ELSE /\ voice_frame_count' =
                 [voice_frame_count EXCEPT ![a] =
                     IF e < sensitivity[a] THEN SaturatingSub1(@) ELSE @]
            /\ UNCHANGED <<wake_emits, voice_detected, wake_elapsed>>
    /\ loud_run' = [loud_run EXCEPT ![a] = LoudRun(@, e, sensitivity[a])]
    /\ CbReturn(a)
    /\ UNCHANGED <<state, wake_word_active, recording_buffer, recording_complete,
                   skip_frames_counter, vad_sensitivity, vad_timeout_ms, env, ctl,
                   loop_pc, silence_frame_count, has_detected_speech,
                   recording_frame_count>>

\* the ListeningForWakeWord arm: count loud blocks, emit "wake_word_detected"
CbWake(a, e) ==
    LET count == voice_frame_count[a] + 1 IN
    /\ cb_pc[a] = "wake"
    /\ IF AboveWake(e, sensitivity[a])
       THEN /\ voice_frame_count[a] < MaxVoiceFrames
            /\ IF EnoughVoice(count) /\ wake_elapsed[a]
               THEN /\ wake_emits' = 1 - wake_emits
                    /\ voice_detected' = TRUE
                    /\ wake_elapsed' = [wake_elapsed EXCEPT ![a] = FALSE]
                    /\ voice_frame_count' = [voice_frame_count EXCEPT ![a] = 0]
               ELSE /\ voice_frame_count' = [voice_frame_count EXCEPT ![a] = count]
                    /\ UNCHANGED <<wake_emits, voice_detected, wake_elapsed>>
       ELSE /\ voice_frame_count' =
                 [voice_frame_count EXCEPT ![a] =
                     IF e < sensitivity[a] THEN SaturatingSub1(@) ELSE @]
            /\ UNCHANGED <<wake_emits, voice_detected, wake_elapsed>>
    /\ loud_run' = [loud_run EXCEPT ![a] = LoudRun(@, e, sensitivity[a])]
    /\ CbReturn(a)
    /\ UNCHANGED <<state, wake_word_active, recording_buffer, recording_complete,
                   skip_frames_counter, vad_sensitivity, vad_timeout_ms, env, ctl,
                   loop_pc, silence_frame_count, has_detected_speech,
                   recording_frame_count>>

\* the loop's setup and the callback up to and through its wake-word arm
AudioListen(a, E) ==
    \/ LoopSetup(a)
    \/ CbRunning(a)
    \/ CbState(a)
    \/ CbSensitivity(a)
    \/ CbTimeout(a)
    \/ \E e \in E : CbWake(a, e)

\* the Transcribing arm of the callback
AudioRecord(a, E) ==
    \/ CbSkipLoad(a)
    \/ CbSkipSub(a)
    \/ \E e \in E : CbAppend(a, e)
    \/ CbComplete(a)

\* one step of the threads of audio loop a, on a block of energy in E
Audio(a, E) == AudioListen(a, E) \/ AudioRecord(a, E)

\* ------------------------------------------------------- the public methods
Methods == {"start", "stop", "set_state", "start_transcription", "cancel_and_reset"}

\* thread t calls method m of the pipeline (s: the argument of set_state)
Invoke(t, m, s) ==
    /\ pc[t] = "idle"
    /\ m = "start" => \A a \in Loops : loop_pc[a] = "none"
    /\ pc' = [pc EXCEPT ![t] = m]
    /\ arg' = [arg EXCEPT ![t] = IF m = "set_state" THEN s ELSE "-"]
    /\ result' = [result EXCEPT ![t] = "Pending"]
    /\ did' = [did EXCEPT ![t] = {}]
    /\ polls' = [polls EXCEPT ![t] = 0]
    /\ recording_samples' = [recording_samples EXCEPT ![t] = 0]
    /\ UNCHANGED <<pipeline_lock, vad_sensitivity_lock, shared, env, cbl, aud>>

\* the thread a call of start() spawns: the first that does not exist yet
NewLoop == IF loop_pc["a1"] = "none" THEN "a1" ELSE "a2"

\* thread t calls start() whether or not an audio loop of the pipeline is
\* alive: start() checks neither the running flag nor the state
InvokeStart(t) ==
    /\ pc[t] = "idle"
    /\ loop_pc[NewLoop] = "none"
    /\ pc' = [pc EXCEPT ![t] = "start"]
    /\ arg' = [arg EXCEPT ![t] = "-"]
    /\ result' = [result EXCEPT ![t] = "Pending"]
    /\ did' = [did EXCEPT ![t] = {}]
    /\ UNCHANGED <<polls, recording_samples, pipeline_lock, vad_sensitivity_lock,
                   shared, env, cbl, aud>>

\* ---- the commands of lib.rs: every call of a pipeline method is made with
\* the guard of Arc<StdMutex<NativeVoicePipeline>> held
\* a command (or the setup) that will call method m starts on thread t
AppCall(t, m) ==
    /\ pc[t] = "idle"
    /\ m = "start" => \A a \in Loops : loop_pc[a] = "none"
    /\ pc' = [pc EXCEPT ![t] = "lock"]
    /\ arg' = [arg EXCEPT ![t] = m]
    /\ result' = [result EXCEPT ![t] = "Pending"]
    /\ did' = [did EXCEPT ![t] = {}]
    /\ UNCHANGED <<polls, recording_samples, pipeline_lock, vad_sensitivity_lock,
                   shared, env, cbl, aud>>

\* let pipeline = voice_pipeline.lock(): blocks while another command holds
\* the guard; then the method is entered
AppLock(t) ==
    /\ pc[t] = "lock"
    /\ pipeline_lock = "free"
    /\ pipeline_lock' = t
    /\ pc' = [pc EXCEPT ![t] = arg[t]]
    /\ UNCHANGED <<arg, result, did, polls, recording_samples,
                   vad_sensitivity_lock, shared, env, cbl, aud>>

\* ---- start()
\* *state = VoiceState::ListeningForWakeWord
StartState(t) ==
    /\ pc[t] = "start"
    /\ state' = "ListeningForWakeWord"
    /\ Goto(t, "start_flag")
    /\ UNCHANGED <<wake_word_active, recording_buffer, recording_complete,
                   skip_frames_counter, voice_detected, vad_sensitivity,
                   vad_timeout_ms, env, arg, did, cbl, aud>>

\* self.wake_word_active.store(true)
StartFlag(t) ==
    /\ pc[t] = "start_flag"
    /\ wake_word_active' = TRUE
    /\ Goto(t, "start_spawn")
    /\ UNCHANGED <<state, recording_buffer, recording_complete,
                   skip_frames_counter, voice_detected, vad_sensitivity,
                   vad_timeout_ms, env, arg, did, cbl, aud>>

\* std::thread::spawn(run_audio_loop); emit_status; Ok(())
StartSpawn(t) ==
    /\ pc[t] = "start_spawn"
    /\ loop_pc[NewLoop] = "none"
    /\ loop_pc' = [loop_pc EXCEPT ![NewLoop] = "spawned"]
    /\ Return(t, "Ok")
    /\ UNCHANGED <<shared, env, arg, did, cbl,
                   voice_frame_count, wake_elapsed, silence_frame_count,
                   has_detected_speech, recording_frame_count, wake_emits,
                   loud_run>>

Start(t) == StartState(t) \/ StartFlag(t) \/ StartSpawn(t)

\* ---- stop()
\* a stop() that flips the running flag instead of clearing it
StopFlagToggles(t) ==
    /\ pc[t] = "stop"
    /\ wake_word_active' = ~wake_word_active
    /\ Goto(t, "stop_state")
    /\ UNCHANGED <<state, recording_buffer, recording_complete,
                   skip_frames_counter, voice_detected, vad_sensitivity,
                   vad_timeout_ms, env, arg, did, cbl, aud>>

\* self.wake_word_active.store(false)
StopFlag(t) ==
    /\ pc[t] = "stop"
    /\ wake_word_active' = FALSE
    /\ Goto(t, "stop_state")
    /\ UNCHANGED <<state, recording_buffer, recording_complete,
                   skip_frames_counter, voice_detected, vad_sensitivity,
                   vad_timeout_ms, env, arg, did, cbl, aud>>

\* a stop() that also clears the recording-complete flag
StopStateClearsFlag(t) ==
    /\ pc[t] = "stop_state"
    /\ state' = "Idle"
    /\ recording_complete' = FALSE
    /\ Return(t, "Ok")
    /\ UNCHANGED <<wake_word_active, recording_buffer,
                   skip_frames_counter, voice_detected, vad_sensitivity,
                   vad_timeout_ms, env, arg, did, cbl, aud>>

\* *state = VoiceState::Idle; emit_status
StopState(t) ==
    /\ pc[t] = "stop_state"
    /\ state' = "Idle"
    /\ Return(t, "Ok")
    /\ UNCHANGED <<wake_word_active, recording_buffer, recording_complete,
                   skip_frames_counter, voice_detected, vad_sensitivity,
                   vad_timeout_ms, env, arg, did, cbl, aud>>

Stop(t) == StopFlag(t) \/ StopState(t)

\* ---- set_state(new_state): *state = new_state under the state lock
SetState(t) ==
    /\ pc[t] = "set_state"
    /\ state' = arg[t]
    /\ Return(t, "Ok")
    /\ UNCHANGED <<wake_word_active, recording_buffer, recording_complete,
                   skip_frames_counter, voice_detected, vad_sensitivity,
                   vad_timeout_ms, env, arg, did, cbl, aud>>

\* ---- the stores every reset is made of (t goes on at l, or returns r)
Next_(t, l, r) == IF l = "return" THEN Return(t, r) ELSE Goto(t, l)

\* buffer.clear() under the buffer lock
ClearBuffer(t, at, l, r) ==
    /\ pc[t] = at
    /\ recording_buffer' = 0
    /\ did' = [did EXCEPT ![t] = @ \cup {at}]
    /\ Next_(t, l, r)
    /\ UNCHANGED <<state, wake_word_active, recording_complete,
                   skip_frames_counter, voice_detected, vad_sensitivity,
                   vad_timeout_ms, env, arg, cbl, aud>>

\* self.recording_complete.store(false)
StoreComplete(t, at, l, r) ==
    /\ pc[t] = at
    /\ recording_complete' = FALSE
    /\ did' = [did EXCEPT ![t] = @ \cup {at}]
    /\ Next_(t, l, r)
    /\ UNCHANGED <<state, wake_word_active, recording_buffer,
                   skip_frames_counter, voice_detected, vad_sensitivity,
                   vad_timeout_ms, env, arg, cbl, aud>>

\* self.voice_detected.store(false)
StoreVoice(t, at, l, r) ==
    /\ pc[t] = at
    /\ voice_detected' = FALSE
    /\ did' = [did EXCEPT ![t] = @ \cup {at}]
    /\ Next_(t, l, r)
    /\ UNCHANGED <<state, wake_word_active, recording_buffer, recording_complete,
                   skip_frames_counter, vad_sensitivity,
                   vad_timeout_ms, env, arg, cbl, aud>>

\* self.skip_frames_counter.store(n)
StoreSkip(t, at, n, l, r) ==
    /\ pc[t] = at
    /\ skip_frames_counter' = n
    /\ did' = [did EXCEPT ![t] = @ \cup {at}]
    /\ Next_(t, l, r)
    /\ UNCHANGED <<state, wake_word_active, recording_buffer, recording_complete,
                   voice_detected, vad_sensitivity,
                   vad_timeout_ms, env, arg, cbl, aud>>

\* ---- update_vad_settings(sensitivity, timeout_ms)
\* the arguments a caller may pass: sensitivities in thousandths (below the
\* range, its two ends, the default, above the range) and timeouts in ms
UpdateSensitivities == {0, 1, 20, 1000, 1001}
UpdateTimeouts == {99, 100, 10000, 10001}

\* thread t calls update_vad_settings(s, ms)
InvokeUpdate(t, s, ms) ==
    /\ pc[t] = "idle"
    /\ pc' = [pc EXCEPT ![t] = "update_vad_settings"]
    /\ arg' = [arg EXCEPT ![t] = <<s, ms>>]
    /\ result' = [result EXCEPT ![t] = "Pending"]
    /\ did' = [did EXCEPT ![t] = {}]
    /\ UNCHANGED <<polls, recording_samples, pipeline_lock, vad_sensitivity_lock,
                   shared, env, cbl, aud>>

\* (0.001..=1.0).contains(&sensitivity)
SensitivityInRange(s) == s >= 1 /\ s <= 1000

\* a timeout check that rejects nothing
TimeoutAlwaysInRange(ms) == TRUE

\* (100..=10000).contains(&timeout_ms)
TimeoutInRange(ms) == ms >= 100 /\ ms <= 10000

\* the two range checks, each with its own error
VadValidate(t) ==
    /\ pc[t] = "update_vad_settings"
    /\ IF ~SensitivityInRange(arg[t][1]) THEN Return(t, "InvalidSensitivity")
       ELSE IF ~TimeoutInRange(arg[t][2]) THEN Return(t, "InvalidTimeout")
       ELSE Goto(t, "vad_sens")
    /\ UNCHANGED <<shared, env, arg, did, cbl, aud>>

\* *sens = sensitivity under the lock of vad_sensitivity
VadSens(t) ==
    /\ pc[t] = "vad_sens"
    /\ vad_sensitivity_lock = "free"
    /\ vad_sensitivity' = arg[t][1]
    /\ did' = [did EXCEPT ![t] = @ \cup {"vad_sens"}]
    /\ Goto(t, "vad_timeout")
    /\ UNCHANGED <<state, wake_word_active, recording_buffer, recording_complete,
                   skip_frames_counter, voice_detected, vad_timeout_ms, env, arg,
                   cbl, aud>>

\* *timeout = timeout_ms under the lock of vad_timeout_ms; Ok(())
VadTimeout(t) ==
    /\ pc[t] = "vad_timeout"
    /\ vad_timeout_ms' = arg[t][2]
    /\ did' = [did EXCEPT ![t] = @ \cup {"vad_timeout"}]
    /\ Return(t, "Ok")
    /\ UNCHANGED <<state, wake_word_active, recording_buffer, recording_complete,
                   skip_frames_counter, voice_detected, vad_sensitivity, env, arg,
                   cbl, aud>>

UpdateVadSettings(t) == VadValidate(t) \/ VadSens(t) \/ VadTimeout(t)

\* ---- cancel_and_reset()
\* *state = VoiceState::ListeningForWakeWord (forced reset); Ok(())
CancelState(t) ==
    /\ pc[t] = "cancel_state"
    /\ state' = "ListeningForWakeWord"
    /\ Return(t, "Ok")
    /\ UNCHANGED <<wake_word_active, recording_buffer, recording_complete,
                   skip_frames_counter, voice_detected, vad_sensitivity,
                   vad_timeout_ms, env, arg, did, cbl, aud>>

CancelAndReset(t) ==
    \/ StoreComplete(t, "cancel_and_reset", "cancel_voice", "-")
    \/ StoreVoice(t, "cancel_voice", "cancel_skip", "-")
    \/ StoreSkip(t, "cancel_skip", 0, "cancel_clear", "-")
    \/ ClearBuffer(t, "cancel_clear", "cancel_state", "-")
    \/ CancelState(t)

\* ---- start_transcription()
\* if !self.wake_word_active.load() { return Err("Voice pipeline not active") }
TxActive(t) ==
    /\ pc[t] = "start_transcription"
    /\ IF wake_word_active THEN Goto(t, "tx_model") ELSE Return(t, "NotActive")
    /\ UNCHANGED <<shared, env, arg, did, cbl, aud>>

\* a start_transcription that does not look for the model file
TxModelSkipped(t) ==
    /\ pc[t] = "tx_model"
    /\ Goto(t, "tx_guard")
    /\ UNCHANGED <<shared, env, arg, did, cbl, aud>>

\* if !whisper_model.exists() { return Err("Whisper model not found") }
TxModel(t) ==
    /\ pc[t] = "tx_model"
    /\ IF model_present THEN Goto(t, "tx_guard") ELSE Return(t, "ModelNotFound")
    /\ UNCHANGED <<shared, env, arg, did, cbl, aud>>

\* if *state == VoiceState::Transcribing
AlreadyTranscribing(s) == s = "Transcribing"

\* under one hold of the state lock: the guard, then *state = Transcribing
TxGuard(t) ==
    /\ pc[t] = "tx_guard"
    /\ IF AlreadyTranscribing(state)
       THEN /\ Return(t, "AlreadyTranscribing")
            /\ UNCHANGED state
       ELSE /\ state' = "Transcribing"
            /\ Goto(t, "tx_clear")
    /\ UNCHANGED <<wake_word_active, recording_buffer, recording_complete,
                   skip_frames_counter, voice_detected, vad_sensitivity,
                   vad_timeout_ms, env, arg, did, cbl, aud>>

\* a wait loop without the time limit
TimedOutNever(p) == FALSE

\* start_time.elapsed() > timeout, after p sleeps of 50 ms
TimedOut(p) == p >= TimeoutPolls

\* a wait loop that only ends by its time limit
TxPollIgnoresFlag(t) ==
    /\ pc[t] = "tx_wait"
    /\ IF TimedOut(polls[t])
       THEN /\ pc' = [pc EXCEPT ![t] = "tx_listen"]
            /\ UNCHANGED polls
       ELSE /\ polls' = [polls EXCEPT ![t] = @ + 1]
            /\ UNCHANGED pc
    /\ UNCHANGED <<result, pipeline_lock, vad_sensitivity_lock, recording_samples,
                   shared, env, arg, did, cbl, aud>>

\* a wait loop that hands over to the copy without the state store
TxPollSkipsListen(t) ==
    /\ pc[t] = "tx_wait"
    /\ IF recording_complete \/ TimedOut(polls[t])
       THEN /\ pc' = [pc EXCEPT ![t] = "tx_copy"]
            /\ UNCHANGED polls
       ELSE /\ polls' = [polls EXCEPT ![t] = @ + 1]
            /\ UNCHANGED pc
    /\ UNCHANGED <<result, pipeline_lock, vad_sensitivity_lock, recording_samples,
                   shared, env, arg, did, cbl, aud>>

\* one turn of the wait loop: recording_complete.load(), the timeout, sleep
TxPoll(t) ==
    /\ pc[t] = "tx_wait"
    /\ IF recording_complete \/ TimedOut(polls[t])
       THEN /\ pc' = [pc EXCEPT ![t] = "tx_listen"]
            /\ UNCHANGED polls
       ELSE /\ polls' = [polls EXCEPT ![t] = @ + 1]
            /\ UNCHANGED pc
    /\ UNCHANGED <<result, pipeline_lock, vad_sensitivity_lock, recording_samples,
                   shared, env, arg, did, cbl, aud>>

\* a session that ends in Idle instead of ListeningForWakeWord
TxListenIdle(t) ==
    /\ pc[t] = "tx_listen"
    /\ state' = "Idle"
    /\ Goto(t, "tx_copy")
    /\ UNCHANGED <<wake_word_active, recording_buffer, recording_complete,
                   skip_frames_counter, voice_detected, vad_sensitivity,
                   vad_timeout_ms, env, arg, did, cbl, aud>>

\* *state = VoiceState::ListeningForWakeWord
TxListen(t) ==
    /\ pc[t] = "tx_listen"
    /\ state' = "ListeningForWakeWord"
    /\ Goto(t, "tx_copy")
    /\ UNCHANGED <<wake_word_active, recording_buffer, recording_complete,
                   skip_frames_counter, voice_detected, vad_sensitivity,
                   vad_timeout_ms, env, arg, did, cbl, aud>>

\* CHUNK_SIZE: the samples of one block of the stream
CHUNK_SIZE == 512

\* SAMPLE_RATE: samples per second
SAMPLE_RATE == 16000

\* duration_seconds < 0.5 for a recording of n blocks
TooShort(n) == 2 * n * CHUNK_SIZE < SAMPLE_RATE

\* a copy that turns a recording shorter than half a second away like an
\* empty one
TxCopyRejectsShort(t) ==
    /\ pc[t] = "tx_copy"
    /\ recording_samples' = [recording_samples EXCEPT ![t] = recording_buffer]
    /\ pc' = [pc EXCEPT ![t] = IF TooShort(recording_buffer) THEN "empty_clear" ELSE "tx_sens"]
    /\ UNCHANGED <<result, pipeline_lock, vad_sensitivity_lock, polls,
                   shared, env, arg, did, cbl, aud>>

\* a copy that takes every recording for a non-empty one
TxCopyNeverEmpty(t) ==
    /\ pc[t] = "tx_copy"
    /\ recording_samples' = [recording_samples EXCEPT ![t] = recording_buffer]
    /\ pc' = [pc EXCEPT ![t] = "tx_sens"]
    /\ UNCHANGED <<result, pipeline_lock, vad_sensitivity_lock, polls,
                   shared, env, arg, did, cbl, aud>>

\* let recording_samples = buffer.clone(); if recording_samples.is_empty()
TxCopy(t) ==
    /\ pc[t] = "tx_copy"
    /\ recording_samples' = [recording_samples EXCEPT ![t] = recording_buffer]
    /\ pc' = [pc EXCEPT ![t] = IF recording_buffer = 0 THEN "empty_clear" ELSE "tx_sens"]
    /\ UNCHANGED <<result, pipeline_lock, vad_sensitivity_lock, polls,
                   shared, env, arg, did, cbl, aud>>

\* let vad_sens = self.vad_sensitivity.lock().unwrap(): held until the return
TxSens(t) ==
    /\ pc[t] = "tx_sens"
    /\ vad_sensitivity_lock = "free"
    /\ vad_sensitivity_lock' = t
    /\ pc' = [pc EXCEPT ![t] = "tx_whisper"]
    /\ UNCHANGED <<result, pipeline_lock, shared, env, arg, polls,
                   recording_samples, did, cbl, aud>>

\* what the recognizer decodes from a recording: a failure (of the model's
\* load, the state's creation, the run or a segment's text), or the segments'
\* texts joined with a blank after each: nothing, blanks only, words
Decodings == {"failed", "", " ", "text"}

\* transcription.trim()
Trim(d) == IF d = " " THEN "" ELSE d

\* a recognizer whose empty transcription is a success
EmptyIsSuccess(d) == IF d = "failed" THEN "WhisperError" ELSE "Ok"

\* fn transcribe_with_whisper(&self, samples, model_path) -> Result<String, String>
transcribe_with_whisper(d) ==
    IF d = "failed" THEN "WhisperError"
    ELSE IF Trim(d) = "" THEN "NoSpeech"
    ELSE "Ok"

\* let transcription_result = self.transcribe_with_whisper(&recording_samples);
\* did keeps the decoding d next to the mark of the recognizer's run
TxWhisper(t, d) ==
    /\ pc[t] = "tx_whisper"
    /\ pc' = [pc EXCEPT ![t] = "final_clear"]
    /\ result' = [result EXCEPT ![t] = transcribe_with_whisper(d)]
    /\ did' = [did EXCEPT ![t] = @ \cup {"whisper", d}]
    /\ UNCHANGED <<pipeline_lock, vad_sensitivity_lock, shared, env, arg, polls,
                   recording_samples, cbl, aud>>

\* guards, reset of the session, wait loop and copy of the recording
TxCapture(t) ==
    \/ TxActive(t)
    \/ TxModel(t)
    \/ TxGuard(t)
    \/ ClearBuffer(t, "tx_clear", "tx_complete", "-")
    \/ StoreComplete(t, "tx_complete", "tx_voice", "-")
    \/ StoreVoice(t, "tx_voice", "tx_skip", "-")
    \/ StoreSkip(t, "tx_skip", SKIP_FRAMES_AFTER_WAKE_WORD, "tx_wait", "-")
    \/ TxPoll(t)
    \/ TxListen(t)
    \/ TxCopy(t)

\* cleanup of the path taken when nothing was recorded
TxEmpty(t) ==
    \/ ClearBuffer(t, "empty_clear", "empty_complete", "-")
    \/ StoreComplete(t, "empty_complete", "empty_voice", "-")
    \/ StoreVoice(t, "empty_voice", "empty_skip", "-")
    \/ StoreSkip(t, "empty_skip", 0, "return", "NoAudio")

\* recognition of a non-empty recording and the final cleanup
TxRecognize(t) ==
    \/ TxSens(t)
    \/ \E d \in Decodings : TxWhisper(t, d)
    \/ ClearBuffer(t, "final_clear", "final_complete", "-")
    \/ StoreComplete(t, "final_complete", "final_voice", "-")
    \/ StoreVoice(t, "final_voice", "final_skip", "-")
    \/ StoreSkip(t, "final_skip", 0, "return", result[t])

StartTranscription(t) ==
    \/ TxCapture(t)
    \/ TxEmpty(t)
    \/ TxRecognize(t)

\* ------------------------------------------------------------ specifications
\* one control thread that only starts the pipeline and transcribes
NextSeq ==
    \/ \E m \in {"start", "start_transcription"} : Invoke("t1", m, "-")
    \/ Start("t1")
    \/ StartTranscription("t1")
    \/ Audio("a1", QuietEnergies)

SpecSeq == Init /\ [][NextSeq]_vars

\* the control thread: every public method, one call after the other
Next ==
    \/ \E m \in Methods, s \in VoiceStates : Invoke("t1", m, s)
    \/ Start("t1")
    \/ Stop("t1")
    \/ SetState("t1")
    \/ StartTranscription("t1")
    \/ CancelAndReset("t1")
    \/ Audio("a1", QuietEnergies)
    \/ LoopKeepAlive("a1")

Spec == Init /\ [][Next]_vars

\* two control threads calling start_transcription() at the same time on a
\* machine without an input device: the audio loop ends in its setup, nothing
\* is ever recorded and every call that passes the guards takes the empty path.
\* start() is called while no other call is in progress.
InitConc == Init /\ ~device_present

NextConc ==
    \/ (\A t \in Threads : pc[t] = "idle") /\ Invoke("t1", "start", "-")
    \/ Start("t1")
    \/ LoopSetup("a1")
    \/ \E t \in Threads :
          /\ pc["t1"] \notin {"start", "start_flag", "start_spawn"}
          /\ Invoke(t, "start_transcription", "-")
    \/ \E t \in Threads : TxCapture(t)
    \/ \E t \in Threads : TxEmpty(t)

SpecConc == InitConc /\ [][NextConc]_vars

\* the control thread switches between Idle, ListeningForWakeWord and Speaking
\* (the text-to-speech feedback guard) while the microphone hears blocks of
\* every loudness; the state is never Transcribing, so the callback never
\* enters its Transcribing arm
NextWake ==
    \/ \E m \in {"start", "set_state"}, s \in VoiceStates \ {"Transcribing"} :
          Invoke("t1", m, s)
    \/ Start("t1")
    \/ SetState("t1")
    \/ AudioListen("a1", Energies)
    \/ WakeElapse("a1")

SpecWake == Init /\ [][NextWake]_vars

\* the application: the setup starts the pipeline, listen_and_transcribe runs
\* on t1, and the user's cancel_recording arrives on t2 while t1's call waits
\* for the recording to finish
NextApp ==
    \/ \E m \in {"start", "start_transcription"} : AppCall("t1", m)
    \/ pc["t1"] = "tx_wait" /\ AppCall("t2", "cancel_and_reset")
    \/ \E t \in Threads : AppLock(t)
    \/ Start("t1")
    \/ StartTranscription("t1")
    \/ CancelAndReset("t2")
    \/ Audio("a1", QuietEnergies)

SpecApp == Init /\ [][NextApp]_vars

\* SpecSeq with a scheduler that does not starve the thread that runs
\* start_transcription(): its sleeps end and the recognizer returns
SpecLive == Init /\ [][NextSeq]_vars /\ WF_vars(StartTranscription("t1"))

\* t1 starts the pipeline, t2 tunes the VAD while the microphone is listened
\* to for the wake word
NextVad ==
    \/ Invoke("t1", "start", "-")
    \/ Start("t1")
    \/ \E s \in UpdateSensitivities, ms \in UpdateTimeouts : InvokeUpdate("t2", s, ms)
    \/ UpdateVadSettings("t2")
    \/ AudioListen("a1", QuietEnergies)

SpecVad == Init /\ [][NextVad]_vars

\* one thread calls start() and stop() in any order, each call as soon as the
\* one before has returned; every audio loop it spawns listens for the wake word
NextLoops ==
    \/ InvokeStart("t1")
    \/ Invoke("t1", "stop", "-")
    \/ Start("t1")
    \/ Stop("t1")
    \/ \E a \in Loops : AudioListen(a, QuietEnergies)
    \/ \E a \in Loops : LoopKeepAlive(a)

SpecLoops == Init /\ [][NextLoops]_vars

\* a pipeline built with any tunables a caller may pass to new(), and then
\* tuned with update_vad_settings
InitNew == New(UpdateSensitivities, UpdateTimeouts)

NextNew ==
    \/ \E s \in UpdateSensitivities, ms \in UpdateTimeouts : InvokeUpdate("t2", s, ms)
    \/ UpdateVadSettings("t2")

SpecNew == InitNew /\ [][NextNew]_vars

\* the energy function applied to every block
NextEnergy ==
    \/ \E d \in Blocks : TakeBlock(d)
    \/ ComputeEnergy

SpecEnergy == Init /\ [][NextEnergy]_vars

\* t1 starts the pipeline and transcribes, t2 stops the pipeline while t1
\* waits for the recording; no input device, so nothing is recorded
NextStop ==
    \/ \E m \in {"start", "start_transcription"} : Invoke("t1", m, "-")
    \/ Start("t1")
    \/ LoopSetup("a1")
    \/ TxCapture("t1")
    \/ TxEmpty("t1")
    \/ pc["t1"] = "tx_wait" /\ Invoke("t2", "stop", "-")
    \/ Stop("t2")

SpecStop == InitConc /\ [][NextStop]_vars

\* t1 starts the pipeline and transcribes; while t1's call waits for the
\* recording, t2 cancels it, once (t1 begins no further session after the
\* cancel); no input device, so nothing is recorded
NextCancel ==
    \/ Invoke("t1", "start", "-")
    \/ result["t2"] = "None" /\ Invoke("t1", "start_transcription", "-")
    \/ Start("t1")
    \/ LoopSetup("a1")
    \/ TxCapture("t1")
    \/ TxEmpty("t1")
    \/ /\ pc["t1"] = "tx_wait"
       /\ result["t2"] = "None"
       /\ Invoke("t2", "cancel_and_reset", "-")
    \/ CancelAndReset("t2")

SpecCancel == InitConc /\ [][NextCancel]_vars

\* the amplitude unit of the blocks of samples, in thousandths: the energies
\* of the blocks are those of Energies
SampleUnit == 30

\* the blocks the detector is given: the empty block and those of one sample
MeterBlocks == {d \in Blocks : Len(d) <= 1}

\* the wake-word detector on blocks of samples: a block is delivered to each
\* invocation of the callback, which computes its energy before it matches on
\* the state; the control thread starts the pipeline
NextMeter ==
    \/ Invoke("t1", "start", "-")
    \/ Start("t1")
    \/ LoopSetup("a1")
    \/ \E d \in MeterBlocks : cb_pc["a1"] = "idle" /\ TakeBlock(d)
    \/ energy = NoEnergy /\ CbRunning("a1")
    \/ CbState("a1")
    \/ CbSensitivity("a1")
    \/ CbTimeout("a1")
    \/ cb_pc["a1"] = "wake" /\ ComputeEnergy
    \/ energy # NoEnergy /\ CbWake("a1", SampleUnit * energy)
    \/ WakeElapse("a1")

SpecMeter == Init /\ [][NextMeter]_vars

\* the control thread starts the pipeline and sets every state with
\* set_state(), no start_transcription() running, while the microphone hears
\* blocks of every loudness: the callback takes each arm of its match (in
\* Transcribing it appends loud blocks, the skip countdown never armed)
NextDetect ==
    \/ \E m \in {"start", "set_state"}, s \in VoiceStates : Invoke("t1", m, s)
    \/ Start("t1")
    \/ SetState("t1")
    \/ AudioListen("a1", Energies)
    \/ CbSkipLoad("a1")
    \/ \E e \in Energies \ QuietEnergies : CbAppend("a1", e)
    \/ WakeElapse("a1")

SpecDetect == Init /\ [][NextDetect]_vars

\* the largest timeout a pipeline is built with
MaxTimeout == 10100

\* the timeouts update_vad_settings accepts
ValidTimeouts == {ms \in 0..MaxTimeout : TimeoutInRange(ms)}

\* a pipeline built with any valid timeout, started, and listening for the
\* wake word in a quiet room: each invocation of the callback reads the
\* timeout and derives silence_frames from it
InitTimeouts == New(SensitivityArgs, ValidTimeouts)

NextTimeouts ==
    \/ Invoke("t1", "start", "-")
    \/ Start("t1")
    \/ AudioListen("a1", QuietEnergies)

SpecTimeouts == InitTimeouts /\ [][NextTimeouts]_vars

\* blocks the buffer may hold where a long recording is followed: more than
\* the 30 seconds of its reserved capacity
LongBuffer == 940

\* the control thread starts the pipeline and sets the state to Transcribing
\* with set_state(), no start_transcription() waiting; the room is silent and
\* the callback records block after block
NextLong ==
    \/ Invoke("t1", "start", "-")
    \/ Invoke("t1", "set_state", "Transcribing")
    \/ Start("t1")
    \/ SetState("t1")
    \/ LoopSetup("a1")
    \/ CbRunning("a1")
    \/ CbState("a1")
    \/ CbSensitivity("a1")
    \/ CbTimeout("a1")
    \/ CbSkipLoad("a1")
    \/ CbAppendUpTo("a1", 0, LongBuffer)

SpecLong == Init /\ [][NextLong]_vars

\* -------------------------------------------------------------------- claims
\* the statements of start_transcription()
TxLabels ==
    {"start_transcription", "tx_model", "tx_guard", "tx_clear", "tx_complete",
     "tx_voice", "tx_skip", "tx_wait", "tx_listen", "tx_copy", "empty_clear",
     "empty_complete", "empty_voice", "empty_skip", "tx_sens", "tx_whisper",
     "final_clear", "final_complete", "final_voice", "final_skip"}

\* this step is the return of a start_transcription() call on thread t
TxReturns(t) == pc[t] \in TxLabels /\ pc'[t] = "idle"

\* C1: at the moment a start_transcription() call returns (rejected, empty
\* capture, recognizer success or failure), the recording buffer is empty, the
\* skip countdown is 0 and the recording-complete flag is false.
C1_Idempotency ==
    [][\A t \in Threads :
          TxReturns(t) =>
             /\ recording_buffer' = 0
             /\ skip_frames_counter' = 0
             /\ recording_complete' = FALSE]_vars

\* thread t's call in progress has passed the guard of the state
PassedGuard(t) == pc[t] \in TxLabels \ {"start_transcription", "tx_model", "tx_guard"}

\* thread t takes the guard step of start_transcription()
AtStateGuard(t) == pc[t] = "tx_guard" /\ pc'[t] # "tx_guard"

\* C2: mutual exclusion. A start_transcription() call that reaches the guard
\* while the state is Transcribing returns the "already transcribing" error
\* and changes neither the state, the buffer, the skip countdown nor the
\* recording-complete flag; and of two calls in progress at the same time at
\* most one has passed the guard.
C2_MutualExclusion ==
    [][/\ \A t \in Threads :
            AtStateGuard(t) /\ state = "Transcribing" =>
               /\ result'[t] = "AlreadyTranscribing"
               /\ pc'[t] = "idle"
               /\ UNCHANGED <<state, recording_buffer, skip_frames_counter,
                              recording_complete>>
       /\ ~(PassedGuard("t1") /\ PassedGuard("t2"))']_vars

\* thread t returns from cancel_and_reset()
CancelReturns(t) == pc[t] = "cancel_state" /\ pc'[t] = "idle"

\* C3: forced reset. Whenever cancel_and_reset() returns, with the audio
\* callback running at the same time, the state is ListeningForWakeWord, the
\* recording buffer is empty, the skip countdown is 0 and the
\* recording-complete flag is false.
C3_ForcedReset ==
    [][\A t \in Threads : CancelReturns(t) =>
          /\ state' = "ListeningForWakeWord"
          /\ recording_buffer' = 0
          /\ skip_frames_counter' = 0
          /\ recording_complete' = FALSE]_vars

\* thread t returns from a start_transcription() call that had passed the guard
SessionReturns(t) == PassedGuard(t) /\ pc'[t] = "idle"

\* C4: whole-session reset. When a call that takes the pipeline out of
\* Transcribing returns (start_transcription() after silence, timeout or an
\* error, or cancel_and_reset()), the audio loop's silence frame count is 0,
\* its speech-seen flag is false and its recorded-frame count is 0 (the part
\* of the RecordingSession that C4 adds to buffer, countdown and flag).
C4_WholeSessionReset ==
    [][\A t \in Threads : SessionReturns(t) \/ CancelReturns(t) =>
          \A a \in Loops :
             /\ silence_frame_count'[a] = 0
             /\ has_detected_speech'[a] = FALSE
             /\ recording_frame_count'[a] = 0]_vars

\* C5: the recording buffer grows only in steps taken while the state is
\* Transcribing, in every interleaving of the audio callback with the control
\* thread.
C5_AppendOnlyWhileTranscribing ==
    [][recording_buffer' > recording_buffer => state = "Transcribing"]_vars

\* the control-thread step (if any) that changes the state in this step
ByStart(t) == pc[t] = "start"
ByGuard(t) == pc[t] = "tx_guard"
BySessionEnd(t) == pc[t] = "tx_listen"
ByCancel(t) == pc[t] = "cancel_state"
BySetState(t) == pc[t] = "set_state"
ByStop(t) == pc[t] = "stop_state"

\* thread t took a step
Stepped(t) == pc'[t] # pc[t]

\* the transitions of the state machine as the claim lists them
ListedTransition(t) ==
    \/ ByStart(t) /\ state = "Idle" /\ state' = "ListeningForWakeWord"
    \/ ByGuard(t) /\ state = "ListeningForWakeWord" /\ state' = "Transcribing"
    \/ (BySessionEnd(t) \/ ByCancel(t))
          /\ state = "Transcribing" /\ state' = "ListeningForWakeWord"
    \/ BySetState(t) /\ state' = "Speaking"
    \/ BySetState(t) /\ state = "Speaking" /\ state' = "ListeningForWakeWord"
    \/ ByStop(t) /\ state' = "Idle"

\* C6 as stated: every change of the state is one of the listed transitions
\* (Idle -> ListeningForWakeWord by start(), ListeningForWakeWord ->
\* Transcribing by start_transcription(), Transcribing -> ListeningForWakeWord
\* at the end of start_transcription() or by cancel_and_reset(), any ->
\* Speaking and Speaking -> ListeningForWakeWord by set_state(), any -> Idle
\* by stop()), and no other transition occurs.
C6_ListedTransitionsOnly ==
    [][state' # state => \E t \in Threads : Stepped(t) /\ ListedTransition(t)]_vars

\* the transitions the methods make
MethodTransition(t) ==
    \/ (ByStart(t) \/ BySessionEnd(t) \/ ByCancel(t))
          /\ state' = "ListeningForWakeWord"
    \/ ByGuard(t) /\ state # "Transcribing" /\ state' = "Transcribing"
    \/ BySetState(t) /\ state' = arg[t]
    \/ ByStop(t) /\ state' = "Idle"

\* C6, amended: the state changes only in a step of a control thread, never
\* in a step of the audio thread, and every change is one of: any ->
\* ListeningForWakeWord by start(), by the end of start_transcription() or by
\* cancel_and_reset(); any state but Transcribing -> Transcribing by the guard
\* of start_transcription(); any -> the requested state (Transcribing and
\* Idle included) by set_state(); any -> Idle by stop().
C6_MethodTransitionsOnly ==
    [][state' # state => \E t \in Threads : Stepped(t) /\ MethodTransition(t)]_vars

\* set_state(Transcribing) has put the pipeline into Transcribing without a
\* start_transcription() call, and the audio loop is recording
C6_Witness ==
    /\ pc["t1"] = "idle" /\ arg["t1"] = "Transcribing" /\ result["t1"] = "Ok"
    /\ state = "Transcribing"
    /\ recording_buffer > 0

\* the callback of loop a takes a step
CbStep(a) == cb_pc'[a] # cb_pc[a]

\* the running invocation of the callback has read the state as Speaking
SpeakingObserved(a) == cb_pc[a] # "idle" /\ current_state[a] = "Speaking"

CancelPending(u) == pc[u] = "lock" /\ arg[u] = "cancel_and_reset"

\* C8: cancel_and_reset() is callable at any time. A cancel request issued
\* while a start_transcription() call waits for the recording to finish is
\* executed before that call returns: no such call returns while the cancel
\* request is still waiting to be executed.
C8_CancelNotDeferred ==
    [][\A t, u \in Threads : SessionReturns(t) => ~CancelPending(u)]_vars

EmptyCapture(t) == pc[t] \in {"empty_clear", "empty_complete", "empty_voice", "empty_skip"}

\* C10: empty capture. When start_transcription() finds no samples in the
\* buffer after its wait loop it returns the "no audio captured" error without
\* having invoked the recognizer, after it has cleared the buffer and stored
\* false, false and 0 into the two flags and the skip countdown; and "no audio
\* captured" is returned by no other path.
C10_EmptyCapture ==
    [][\A t \in Threads :
          /\ pc[t] = "tx_copy" /\ Stepped(t) =>
                (EmptyCapture(t)' <=> recording_buffer = 0)
          /\ EmptyCapture(t) /\ Stepped(t) =>
                /\ "whisper" \notin did'[t]
                /\ EmptyCapture(t)' \/ pc'[t] = "idle"
                /\ pc'[t] = "idle" =>
                      /\ result'[t] = "NoAudio"
                      /\ {"empty_clear", "empty_complete", "empty_voice",
                          "empty_skip"} \subseteq did'[t]
          /\ pc'[t] = "idle" /\ Stepped(t) /\ result'[t] = "NoAudio" =>
                pc[t] = "empty_skip"]_vars

\* a call has returned "no audio captured" after its four cleanup stores, the
\* recognizer not invoked
C10_Witness ==
    /\ pc["t1"] = "idle" /\ result["t1"] = "NoAudio"
    /\ "whisper" \notin did["t1"]
    /\ did["t1"] = {"tx_clear", "tx_complete", "tx_voice", "tx_skip",
                    "empty_clear", "empty_complete", "empty_voice", "empty_skip"}


\* the step with which update_vad_settings returns on thread t
UpdateReturns(t) ==
    /\ pc[t] \in {"update_vad_settings", "vad_sens", "vad_timeout"}
    /\ pc'[t] = "idle"

\* C11: update_vad_settings(sensitivity, timeout_ms) returns Ok exactly when
\* the sensitivity is within 0.001..=1.0 and the timeout within 100..=10000 ms;
\* a rejected call has stored nothing and leaves both tunables as they were
C11_RangeValidation ==
    [][UpdateReturns("t2") =>
          /\ (result'["t2"] = "Ok") <=>
                (arg["t2"][1] >= 1 /\ arg["t2"][1] <= 1000
                 /\ arg["t2"][2] >= 100 /\ arg["t2"][2] <= 10000)
          /\ result'["t2"] = "Ok" =>
                /\ vad_sensitivity' = arg["t2"][1]
                /\ vad_timeout_ms' = arg["t2"][2]
          /\ result'["t2"] # "Ok" =>
                /\ did'["t2"] = {}
                /\ UNCHANGED <<vad_sensitivity, vad_timeout_ms>>]_vars

\* a valid sensitivity paired with an invalid timeout was rejected and the
\* sensitivity in force is still another value
C11_Witness ==
    /\ pc["t2"] = "idle"
    /\ result["t2"] = "InvalidTimeout"
    /\ arg["t2"][1] = 1
    /\ arg["t2"][2] = 10001
    /\ vad_sensitivity = 20


\* C12: start_transcription() on a pipeline that is not running returns the
\* "not active" error, and on a running pipeline whose model file is absent
\* the "model not found" error; either way the call has had no effect and its
\* returning step leaves state, buffer, skip countdown and flags as they were
C12_RejectedStartTranscription ==
    [][(Stepped("t1") /\ \/ pc["t1"] = "start_transcription" /\ ~wake_word_active
                         \/ pc["t1"] = "tx_model" /\ ~model_present) =>
          /\ pc'["t1"] = "idle"
          /\ result'["t1"] = (IF pc["t1"] = "tx_model" THEN "ModelNotFound" ELSE "NotActive")
          /\ did'["t1"] = {}
          /\ UNCHANGED shared]_vars

\* a call on a running pipeline was rejected for the missing model while
\* captured audio lay in the buffer
C12_Witness ==
    /\ pc["t1"] = "idle"
    /\ result["t1"] = "ModelNotFound"
    /\ wake_word_active
    /\ recording_buffer > 0


\* the audio thread of loop a takes a step: its set-up, its tear-down or a
\* step of its callback
AudioStep(a) == CbStep(a) \/ loop_pc'[a] # loop_pc[a]

\* C13: no step of the audio thread changes the VoiceState, whichever state
\* the callback runs in and whatever it records or detects; a step that
\* changes the state is a step of a control thread inside one of start, stop,
\* set_state, start_transcription and cancel_and_reset.
C13_AudioNeverTransitions ==
    [][/\ \A a \in Loops : AudioStep(a) => state' = state
       /\ state' # state =>
             \E t \in Threads :
                /\ Stepped(t)
                /\ ByStart(t) \/ ByStop(t) \/ BySetState(t) \/ ByGuard(t)
                      \/ BySessionEnd(t) \/ ByCancel(t)]_vars

\* the callback has completed a recording and the state is still
\* Transcribing while start_transcription() waits
C13_Witness ==
    /\ pc["t1"] = "tx_wait"
    /\ recording_complete
    /\ cb_pc["a1"] = "idle"
    /\ state = "Transcribing"


\* C14: single capture stream. Whatever start() and stop() calls are made on
\* the pipeline, at most one of its audio loops has a capture stream playing.
C14_SingleCaptureStream ==
    Cardinality({a \in Loops : loop_pc[a] = "running"}) <= 1


\* C15: shutdown. Once stop() has cleared the running flag, no step of the
\* audio callback changes the state, the buffer, the completion flag, the
\* skip countdown, the voice flag or the tunables.
C15_NoEffectAfterStop ==
    [][\A a \in Loops : (~wake_word_active /\ CbStep(a)) => UNCHANGED shared]_vars


\* the step with which stop() returns on thread t
StopReturns(t) == pc[t] = "stop_state" /\ pc'[t] = "idle"

\* C16: stop() always returns normally, with the state Idle and the running
\* flag false, whatever the state and the flag were when it was called; and
\* a stop() on a pipeline that is already stopped (Idle, flag false) changes
\* no field of the pipeline in any of its steps.
C16_StopIdempotent ==
    [][/\ StopReturns("t1") =>
             /\ state' = "Idle"
             /\ ~wake_word_active'
             /\ result'["t1"] = "Ok"
       /\ (pc["t1"] \in {"stop", "stop_state"} /\ Stepped("t1")
             /\ state = "Idle" /\ ~wake_word_active) => UNCHANGED shared]_vars

\* stop() is called once more after a stop(): the flag is already false and
\* the state Idle while the audio loop of the earlier start() still exists
C16_Witness ==
    /\ pc["t1"] = "stop"
    /\ state = "Idle"
    /\ ~wake_word_active
    /\ loop_pc["a1"] = "running"


\* thread t's call is past the state store that follows the wait loop: at the
\* copy of the buffer, in the empty-capture path, or at or after the recognizer
AfterListen(t) ==
    pc[t] \in {"tx_copy", "tx_sens", "tx_whisper", "final_clear", "final_complete",
               "final_voice", "final_skip"} \/ EmptyCapture(t)

WakeNotified == wake_emits' # wake_emits

\* C18: wake debounce. A notification is raised only by a callback step of
\* the loop at a moment when three seconds have passed since the loop's
\* last_wake_emission, and the step restarts that interval; the interval is
\* also started by the loop's set-up and is completed only by the passing of
\* time, never by a callback step. Hence between two notifications of one
\* loop three seconds pass, whatever blocks the microphone delivers.
C18_WakeDebounce ==
    [][/\ WakeNotified =>
             /\ CbStep("a1")
             /\ wake_elapsed["a1"]
             /\ ~wake_elapsed'["a1"]
       /\ (~wake_elapsed["a1"] /\ wake_elapsed'["a1"]) =>
             /\ ~CbStep("a1")
             /\ loop_pc'["a1"] = loop_pc["a1"]
       /\ (loop_pc'["a1"] = "running" /\ loop_pc["a1"] # "running") =>
             ~wake_elapsed'["a1"]]_vars

\* the loop has raised its second notification and the interval has
\* restarted
C18_Witness ==
    /\ loop_pc["a1"] = "running"
    /\ wake_emits = 0
    /\ voice_detected
    /\ ~wake_elapsed["a1"]
    /\ voice_frame_count["a1"] = 0


\* update_vad_settings(s, t) has returned Ok on thread u and u has made no
\* call since; arg[u] still holds <<s, t>>
UpdateInForce(u) == pc[u] = "idle" /\ result[u] = "Ok"

\* C19: the callback uses the current tunables. While the last
\* update_vad_settings(s, t) has returned Ok, the tunables of the pipeline are
\* s and t, a callback invocation that then reads the sensitivity gets s and
\* one that reads the timeout gets t; every invocation reads both anew, and
\* its later steps work on the values it read.
C19_CurrentTunables ==
    [][/\ UpdateInForce("t2") =>
             /\ vad_sensitivity = arg["t2"][1]
             /\ vad_timeout_ms = arg["t2"][2]
       /\ (CbStep("a1") /\ cb_pc["a1"] = "sensitivity") =>
             /\ sensitivity'["a1"] = vad_sensitivity
             /\ UpdateInForce("t2") => sensitivity'["a1"] = arg["t2"][1]
       /\ (CbStep("a1") /\ cb_pc["a1"] = "timeout" /\ cb_pc'["a1"] # "idle") =>
             /\ timeout_ms'["a1"] = vad_timeout_ms
             /\ sensitivity'["a1"] = sensitivity["a1"]
             /\ UpdateInForce("t2") => timeout_ms'["a1"] = arg["t2"][2]]_vars

\* after update_vad_settings(1.0, 10000) has returned, an invocation is in
\* its wake-word arm with the new sensitivity and the new timeout
C19_Witness ==
    /\ UpdateInForce("t2")
    /\ arg["t2"] = <<1000, 10000>>
    /\ cb_pc["a1"] = "wake"
    /\ sensitivity["a1"] = 1000
    /\ timeout_ms["a1"] = 10000


\* thread t holds the copy of a recording that is not empty and shorter than
\* half a second
ShortCapture(t) == recording_samples[t] > 0 /\ TooShort(recording_samples[t])

\* C20: short capture. A start_transcription() call whose copy of the buffer
\* is non-empty but shorter than 0.5 s goes on to the recognizer, never into
\* the empty-capture path; it invokes the recognizer and returns, after the
\* final cleanup, what the recognizer gave: the text, the recognizer's error
\* or the "no speech" error, and never "no audio captured".
C20_ShortCapture ==
    [][Stepped("t1") =>
          /\ (pc["t1"] = "tx_copy" /\ recording_buffer > 0 /\ TooShort(recording_buffer)) =>
                /\ pc'["t1"] = "tx_sens"
                /\ ShortCapture("t1")'
          /\ (ShortCapture("t1") /\ pc["t1"] = "tx_sens") => pc'["t1"] = "tx_whisper"
          /\ (ShortCapture("t1") /\ pc["t1"] = "tx_whisper") =>
                /\ "whisper" \in did'["t1"]
                /\ result'["t1"] \in WhisperOutcomes
          /\ (ShortCapture("t1") /\ "whisper" \in did["t1"]) =>
                /\ result'["t1"] = result["t1"]
                /\ result'["t1"] \in WhisperOutcomes]_vars

\* a recording of one block (32 ms) has been handed to the recognizer, which
\* returned a transcription
C20_Witness ==
    /\ pc["t1"] = "final_skip"
    /\ recording_samples["t1"] = 1
    /\ "whisper" \in did["t1"]
    /\ result["t1"] = "Ok"


\* C21: in every state of a pipeline, whatever arguments new() and
\* update_vad_settings were given, the sensitivity is within 0.001..=1.0 and
\* the timeout within 100..=10000 ms.
C21_TunablesInRange ==
    /\ vad_sensitivity >= 1 /\ vad_sensitivity <= 1000
    /\ vad_timeout_ms >= 100 /\ vad_timeout_ms <= 10000


\* every sample of block d is a
Constant(d, a) == \A i \in 1..Len(d) : d[i] = a

\* C22: energy correctness. The energy computed for the empty block and for
\* a block of zeros is 0, and the energy computed for a non-empty block
\* whose samples all equal a is |a|.
C22_EnergyCorrect ==
    energy # NoEnergy =>
       /\ data = <<>> => energy = 0
       /\ Constant(data, 0) => energy = 0
       /\ \A a \in Amplitudes :
             (data # <<>> /\ Constant(data, a)) =>
                energy = (IF a < 0 THEN 0 - a ELSE a)

\* the energy of a full block of the most negative sample value has been
\* computed
C22_Witness ==
    /\ data = [i \in 1..MaxBlock |-> 0 - MaxAmplitude]
    /\ energy = MaxAmplitude


\* thread t's call has entered Transcribing and has not yet left its wait loop
InSession(t) == pc[t] \in {"tx_clear", "tx_complete", "tx_voice", "tx_skip", "tx_wait"}

\* this step appends a block to the recording buffer
Appended == recording_buffer' > recording_buffer

\* C23: skip countdown. While a start_transcription() call is in its
\* session, a block is appended to the buffer only after the countdown has
\* been armed and 15 blocks have run it down to 0, however the callback
\* interleaves with the state switch, the buffer clear and the arming.
C23_SkipCountdown ==
    [][(InSession("t1") /\ Appended) =>
          /\ pc["t1"] = "tx_wait"
          /\ skip_frames_counter = 0]_vars


\* C24: the skip countdown is within 0..15 in every state; the callback's
\* separate load and decrement, interleaved with a control thread's store of
\* 0, never wrap it around to the largest unsigned value.
C24_SkipCounterInRange ==
    skip_frames_counter \in 0..SKIP_FRAMES_AFTER_WAKE_WORD


\* this step sets the recording-complete flag
Completed == recording_complete' /\ ~recording_complete

\* C25: end-of-speech condition. The audio thread sets the
\* recording-complete flag only when the session it records has itself
\* appended at least 30 blocks (the buffer, cleared when the session began,
\* holds them); frames and speech of an earlier session do not count.
C25_EndOfSpeechWithinSession ==
    [][Completed => recording_buffer >= MIN_RECORDING_FRAMES]_vars


\* the callback of loop a records a block in this step
Records(a) == cb_pc[a] = "append" /\ CbStep(a)

C27_HandOff ==
    [][/\ (pc["t1"] = "tx_wait" /\ recording_complete) =>
             /\ recording_complete'
             /\ polls'["t1"] = polls["t1"]
             /\ pc'["t1"] \in {"tx_wait", "tx_listen"}
       /\ (pc["t1"] = "tx_listen" /\ Stepped("t1")) => pc'["t1"] = "tx_copy"
       /\ (pc["t1"] = "tx_copy" /\ Stepped("t1")) =>
             recording_samples'["t1"] = recording_buffer
       /\ Completed => recording_buffer' = recording_buffer]_vars

\* the call has left its wait loop on the flag, before its time limit, with
\* the recorded blocks in the buffer
C27_Witness ==
    /\ pc["t1"] = "tx_listen"
    /\ recording_complete
    /\ polls["t1"] < TimeoutPolls
    /\ recording_buffer > 0


\* thread t is at one of the stores of false into the recording-complete
\* flag: the three of start_transcription() and the one of cancel_and_reset()
AtCompleteStore(t) ==
    pc[t] \in {"tx_complete", "empty_complete", "final_complete", "cancel_and_reset"}

\* C28: the recording-complete flag goes from false to true only in a step
\* of the audio callback, in an invocation that read the state as
\* Transcribing, and from true to false only in a step of a control thread
\* that is inside start_transcription() or cancel_and_reset().
C28_FlagWriters ==
    [][/\ Completed =>
             /\ \E a \in Loops : CbStep(a) /\ current_state[a] = "Transcribing"
             /\ \A t \in Threads : ~Stepped(t)
       /\ (recording_complete /\ ~recording_complete') =>
             /\ \E t \in Threads : Stepped(t) /\ AtCompleteStore(t)
             /\ \A a \in Loops : ~CbStep(a)]_vars

\* the callback has set the flag in Transcribing and cancel_and_reset() is
\* about to clear it
C28_Witness ==
    /\ recording_complete
    /\ state = "Transcribing"
    /\ pc["t1"] = "cancel_and_reset"


\* stop() has returned on thread u, which has made no call since
Stopped(u) == pc[u] = "idle" /\ result[u] = "Ok"

\* C29: once stop() has returned and the state is Idle, the state stays Idle
\* in every step but the state store of a start() call; a
\* start_transcription() call that was waiting when stop() ran does not move
\* it.
C29_IdleAfterStop ==
    [][(Stopped("t2") /\ state = "Idle") =>
          \/ state' = "Idle"
          \/ \E t \in Threads : ByStart(t) /\ Stepped(t)]_vars

\* thread t takes a step that starts a session: the reset of the buffer or
\* the arming of the skip countdown
StartsSession(t) == pc[t] \in {"tx_clear", "tx_skip"} /\ pc'[t] # pc[t]

\* thread t takes a step of the cleanup that ends its call
CleansUp(t) ==
    /\ pc[t] \in {"empty_clear", "empty_complete", "empty_voice", "empty_skip",
                  "final_clear", "final_complete", "final_voice", "final_skip"}
    /\ pc'[t] # pc[t]

\* C30: single session. No start_transcription() call resets the buffer or
\* arms the skip countdown while another call is between its entry into
\* Transcribing and the end of its cleanup, and no call takes a step of its
\* cleanup while another call is in its session.
C30_SingleSession ==
    [][\A t \in Threads : \A u \in Threads \ {t} :
          /\ StartsSession(t) => ~PassedGuard(u)
          /\ CleansUp(t) => ~InSession(u)]_vars

\* cancel_and_reset() has returned on thread u, which has made no call since
Cancelled(u) == pc[u] = "idle" /\ result[u] = "Ok"

\* thread t takes one turn of the wait loop of start_transcription()
Polled(t) == pc[t] = "tx_wait" /\ (pc'[t] # pc[t] \/ polls'[t] # polls[t])

\* C31: cancel ends the wait. A poll of the wait loop of start_transcription()
\* that follows a cancel_and_reset() executed during that wait leaves the
\* loop.
C31_CancelEndsWait ==
    [][(Polled("t1") /\ Cancelled("t2")) => pc'["t1"] # "tx_wait"]_vars

\* the final cleanup of thread t's call in progress
FinalCleanup(t) == pc[t] \in {"final_clear", "final_complete", "final_voice", "final_skip"}

\* what the recognizer decoded in thread t's call
Decoded(t) == did[t] \cap Decodings

\* C32: recognition result. The recognizer runs at most once in a call, on a
\* non-empty copy of the buffer made after the store of ListeningForWakeWord;
\* a failure is returned as the recognizer's error, an empty or blank text as
\* the "no speech detected" error, any other text as success; the cleanup
\* that follows keeps that result, the call returns it, and none of the three
\* is returned by a call that did not run the recognizer.
C32_RecognizerResult ==
    [][Stepped("t1") =>
          /\ pc["t1"] = "tx_whisper" =>
                /\ "whisper" \notin did["t1"]
                /\ "whisper" \in did'["t1"]
                /\ recording_samples["t1"] > 0
                /\ AfterListen("t1")
                /\ Decoded("t1")' # {}
                /\ "failed" \in Decoded("t1")' => result'["t1"] = "WhisperError"
                /\ "" \in Decoded("t1")' => result'["t1"] = "NoSpeech"
                /\ " " \in Decoded("t1")' => result'["t1"] = "NoSpeech"
                /\ "text" \in Decoded("t1")' => result'["t1"] = "Ok"
          /\ FinalCleanup("t1") =>
                /\ result'["t1"] = result["t1"]
                /\ did["t1"] \cap (Decodings \cup {"whisper"}) =
                      did'["t1"] \cap (Decodings \cup {"whisper"})
          /\ ("whisper" \in did["t1"] /\ pc["t1"] \in TxLabels) =>
                FinalCleanup("t1")
          /\ (pc["t1"] \in TxLabels /\ pc'["t1"] = "idle"
                 /\ result'["t1"] \in WhisperOutcomes) =>
                pc["t1"] = "final_skip"]_vars

\* a call has returned "no speech detected" for a recording in which the
\* recognizer found blank segments only
C32_Witness ==
    /\ pc["t1"] = "idle"
    /\ result["t1"] = "NoSpeech"
    /\ Decoded("t1") = {" "}

WakeStep(a) == cb_pc[a] = "wake" /\ CbStep(a)

Observed(a) == cb_pc[a] \notin {"idle", "state"}

C36_SilenceFrames ==
    \A a \in Loops :
       LET ms == timeout_ms[a]
           f == SilenceFrames(ms)
       IN (cb_pc[a] = "wake" /\ TimeoutInRange(ms)) =>
             /\ 32 * f - 16 <= ms
             /\ ms < 32 * f + 16
             /\ f >= 3
             /\ ms = 1280 => f = 40

\* the callback has read the default timeout of 1280 ms
C36_Witness == cb_pc["a1"] = "wake" /\ timeout_ms["a1"] = 1280

\* every audio loop the pipeline has spawned has ended
NoLoop == \A a \in Loops : loop_pc[a] = "none"

\* C37: no input device. On a machine without an audio input device the
\* pipeline is never left with start() returned Ok, the running flag true,
\* the state ListeningForWakeWord and no audio loop alive.
C37_NoDeviceStartFails ==
    ~device_present =>
       ~(/\ pc["t1"] = "idle" /\ result["t1"] = "Ok"
         /\ wake_word_active
         /\ state = "ListeningForWakeWord"
         /\ NoLoop)

\* C38: bounded buffer. The recording buffer never holds more samples than
\* the capacity reserved at construction, SAMPLE_RATE x MAX_RECORDING_SECONDS.
C38_BufferBounded ==
    recording_buffer * CHUNK_SIZE <= SAMPLE_RATE * MAX_RECORDING_SECONDS


====
